---- MODULE Spec2Model ----
(***************************************************************************)
(* Model of src/tls.c: the TLS ClientHello parser that extracts the Server  *)
(* Name Indication host name (parse_tls_header, parse_extensions,           *)
(* parse_server_name_extension) and the record splitter                     *)
(* (modify_tls_header).                                                     *)
(*                                                                          *)
(* A buffer is a sequence of bytes; C index i is element i + 1.  A pointer  *)
(* into the buffer (data + pos) is the pair of the buffer and the absolute  *)
(* offset `base`, so that every byte a stage reads is recorded with its     *)
(* absolute index in the caller's buffer.                                   *)
(***************************************************************************)
EXTENDS Integers, Sequences, FiniteSets, TLC

(***************************************************************************)
(* Program constants.                                                       *)
(***************************************************************************)
TLS_HEADER_LEN == 5
TLS_HANDSHAKE_CONTENT_TYPE == 22
TLS_HANDSHAKE_TYPE_CLIENT_HELLO == 1

(***************************************************************************)
(* Bounds of the generated inputs.                                          *)
(***************************************************************************)
MaxNameLen == 2
MaxSkipped == 1
MaxOther == 1
MaxSessionId == 1

(***************************************************************************)
(* Byte-level helpers.                                                      *)
(***************************************************************************)
NULL == <<>>

MIN(X, Y) == IF X < Y THEN X ELSE Y

\* data[i].  The buffer is Len(data) bytes of addressable memory.  The
\* program never reads at an index beyond it (ReadsWithinWorkingLength); the
\* value given there is met only by the variants of the tests defined below.
ByteAt(data, i) == IF i >= 0 /\ i < Len(data) THEN data[i + 1] ELSE 0

\* ((size_t)data[i] << 8) + (size_t)data[i + 1]
U16At(data, i) == ByteAt(data, i) * 256 + ByteAt(data, i + 1)

\* data[0] & 0x80
HighBit(b) == b >= 128

\* htons(v) stored through a uint16_t pointer: the value is truncated to 16
\* bits and laid out big-endian.
htons(v) == <<(v % 65536) \div 256, v % 256>>

\* strncpy(dst, src, n): bytes are copied up to and including the first NUL
\* of the source, the rest of the n bytes is zero-filled.
strncpy(data, from, n) ==
    [i \in 1..n |->
        IF \E j \in 0..(i - 2) : ByteAt(data, from + j) = 0
        THEN 0 ELSE ByteAt(data, from + i - 1)]

\* The source bytes strncpy looks at: it stops after the first NUL.
strncpy_reads(data, from, n) ==
    {from + i : i \in {k \in 0..(n - 1) :
        \A j \in 0..(k - 1) : ByteAt(data, from + j) # 0}}

(***************************************************************************)
(* The tests and offsets of the two scanning loops, one per source line.    *)
(***************************************************************************)
\* Variant: the loop also enters on an entry header that ends the body.
MoreEntriesInclusive(pos, data_len) == pos + 3 <= data_len

\* while (pos + 3 < data_len)
MoreEntries(pos, data_len) == pos + 3 < data_len

\* Variant: the entry header counted as two bytes instead of three.
EntryFitsShortHeader(pos, len, data_len) == ~(pos + 2 + len > data_len)

\* Variant: an entry that ends exactly at the end of the body is rejected.
EntryFitsStrict(pos, len, data_len) == ~(pos + 3 + len >= data_len)

\* the negation of: if (pos + 3 + len > data_len) return -5;
EntryFits(pos, len, data_len) == ~(pos + 3 + len > data_len)

\* *modify_pos = pos + 3 + old_pos;
ServerNameModifyPos(pos, old_pos) == pos + 3 + old_pos

\* Variant: a header that ends the block is not scanned.
MoreExtensionsStrict(pos, data_len) == pos + 4 < data_len

\* while (pos + 4 <= data_len)
MoreExtensions(pos, data_len) == pos + 4 <= data_len

\* Variant: the baseline offset is dropped.
ExtensionModifyPosNoBase(pos, old_pos) == pos + 4

\* *modify_pos = pos + 4 + old_pos;
ExtensionModifyPos(pos, old_pos) == pos + 4 + old_pos

\* Variant: the final test inverted.
EndOfScanInverted(pos, data_len) == IF pos = data_len THEN -5 ELSE -2

\* if (pos != data_len) return -5; return -2;
EndOfScan(pos, data_len) == IF pos # data_len THEN -5 ELSE -2

(***************************************************************************)
(* parse_server_name_extension (tls.c 235-273).  `base` is the absolute     *)
(* offset of the extension body, data_len its length, old_pos the incoming  *)
(* *modify_pos.                                                             *)
(***************************************************************************)
RECURSIVE server_name_loop(_, _, _, _, _, _, _)
server_name_loop(data, base, data_len, malloc_ok, old_pos, pos, reads) ==
    IF MoreEntries(pos, data_len)
    THEN LET len    == U16At(data, base + pos + 1)
             reads1 == reads \cup {base + pos + 1, base + pos + 2}
         IN  IF ~EntryFits(pos, len, data_len)
             THEN [ret |-> -5, hostname |-> NULL, hostname_set |-> FALSE,
                   modify_pos |-> 0, sni_reads |-> reads1, copy_reads |-> {}]
             ELSE IF ByteAt(data, base + pos) = 0
             THEN IF ~malloc_ok
                  THEN [ret |-> -4, hostname |-> NULL, hostname_set |-> TRUE,
                        modify_pos |-> 0,
                        sni_reads |-> reads1 \cup {base + pos},
                        copy_reads |-> {}]
                  ELSE [ret |-> len,
                        hostname |-> strncpy(data, base + pos + 3, len) \o <<0>>,
                        hostname_set |-> TRUE,
                        modify_pos |-> ServerNameModifyPos(pos, old_pos),
                        sni_reads |-> reads1 \cup {base + pos},
                        copy_reads |-> strncpy_reads(data, base + pos + 3, len)]
             ELSE server_name_loop(data, base, data_len, malloc_ok, old_pos,
                                   pos + 3 + len, reads1 \cup {base + pos})
    ELSE [ret |-> EndOfScan(pos, data_len),
          hostname |-> NULL, hostname_set |-> FALSE, modify_pos |-> 0,
          sni_reads |-> reads, copy_reads |-> {}]

parse_server_name_extension(data, base, data_len, malloc_ok, old_pos) ==
    server_name_loop(data, base, data_len, malloc_ok, old_pos, 2, {})

(***************************************************************************)
(* parse_extensions (tls.c 205-233).  `base` is the absolute offset of the  *)
(* Extensions block, data_len its declared length.                          *)
(***************************************************************************)
NoServerName ==
    [hostname |-> NULL, hostname_set |-> FALSE, sni_reads |-> {},
     copy_reads |-> {}, sni_base |-> -1, sni_len |-> -1]

RECURSIVE extensions_loop(_, _, _, _, _, _, _)
extensions_loop(data, base, data_len, malloc_ok, old_pos, pos, reads) ==
    IF MoreExtensions(pos, data_len)
    THEN LET len    == U16At(data, base + pos + 2)
             reads1 == reads \cup {base + pos + 2, base + pos + 3, base + pos}
             isSni0 == ByteAt(data, base + pos) = 0
             reads2 == IF isSni0 THEN reads1 \cup {base + pos + 1} ELSE reads1
         IN  IF isSni0 /\ ByteAt(data, base + pos + 1) = 0
             THEN IF pos + 4 + len > data_len
                  THEN [ret |-> -5, modify_pos |-> 0, ext_reads |-> reads2,
                        stage |-> "extensions"] @@ NoServerName
                  ELSE LET sn == parse_server_name_extension(
                                    data, base + pos + 4, len, malloc_ok,
                                    ExtensionModifyPos(pos, old_pos))
                       IN  [ret |-> sn.ret, modify_pos |-> sn.modify_pos,
                            ext_reads |-> reads2, stage |-> "server_name",
                            hostname |-> sn.hostname,
                            hostname_set |-> sn.hostname_set,
                            sni_reads |-> sn.sni_reads,
                            copy_reads |-> sn.copy_reads,
                            sni_base |-> base + pos + 4, sni_len |-> len]
             ELSE extensions_loop(data, base, data_len, malloc_ok, old_pos,
                                  pos + 4 + len, reads2)
    ELSE [ret |-> EndOfScan(pos, data_len), modify_pos |-> 0,
          ext_reads |-> reads, stage |-> "extensions"] @@ NoServerName

parse_extensions(data, base, data_len, malloc_ok, old_pos) ==
    extensions_loop(data, base, data_len, malloc_ok, old_pos, 0, {})

(***************************************************************************)
(* parse_tls_header (tls.c 99-203).  hostname_ok says that the hostname     *)
(* output slot is not NULL, malloc_ok that the allocator has memory, and    *)
(* modify_pos_in is what the caller's *modify_pos held before the call.     *)
(* The result also records, per stage, the absolute indices read and the    *)
(* slice (base, length) handed to the next stage.                           *)
(***************************************************************************)
\* Variant: the test of data[2] is left out.
IsSsl2ByHighBitAlone(data) == HighBit(ByteAt(data, 0))

\* data[0] & 0x80 && data[2] == 1
IsSsl2ClientHello(data) == HighBit(ByteAt(data, 0)) /\ ByteAt(data, 2) = 1

\* Variant: the high byte of the record length is ignored.
RecordEndLowByte(data) == ByteAt(data, 4) + TLS_HEADER_LEN

\* ((size_t)data[3] << 8) + (size_t)data[4] + TLS_HEADER_LEN
RecordEnd(data) == U16At(data, 3) + TLS_HEADER_LEN

\* pos == data_len && tls_version_major == 3 && tls_version_minor == 0
IsSsl3WithoutExtensions(pos, data_len, major, minor) ==
    pos = data_len /\ major = 3 /\ minor = 0

HeaderReturn(ret, modify_pos_in, reads) ==
    [ret |-> ret, modify_pos |-> modify_pos_in, hdr_reads |-> reads,
     ext_reads |-> {}, stage |-> "header", ext_base |-> -1, ext_len |-> -1]
    @@ NoServerName

parse_tls_header(data, data_len_in, hostname_ok, malloc_ok, modify_pos_in) ==
    LET Return(ret, reads) == HeaderReturn(ret, modify_pos_in, reads)
        ssl2reads == IF HighBit(ByteAt(data, 0)) THEN {0, 2} ELSE {0}
        len0      == RecordEnd(data)
        data_len  == MIN(data_len_in, len0)
        r0        == ssl2reads \cup {1, 2, 3, 4}
        pos0      == TLS_HEADER_LEN
        pos1      == pos0 + 38
        pos2      == pos1 + 1 + ByteAt(data, pos1)
        pos3      == pos2 + 2 + U16At(data, pos2)
        pos4      == pos3 + 1 + ByteAt(data, pos3)
        len4      == U16At(data, pos4)
        pos5      == pos4 + 2
        r1        == r0 \cup {pos0}
        r2        == r1 \cup {pos1}
        r3        == r2 \cup {pos2, pos2 + 1}
        r4        == r3 \cup {pos3}
        r5        == r4 \cup {pos4, pos4 + 1}
    IN  IF ~hostname_ok THEN Return(-3, {})
        ELSE IF data_len_in < TLS_HEADER_LEN THEN Return(-1, {})
        ELSE IF IsSsl2ClientHello(data)
             THEN Return(-2, ssl2reads)
        ELSE IF ByteAt(data, 0) # TLS_HANDSHAKE_CONTENT_TYPE
             THEN Return(-5, ssl2reads)
        ELSE IF ByteAt(data, 1) < 3 THEN Return(-2, ssl2reads \cup {1, 2})
        ELSE IF data_len < len0 THEN Return(-1, r0)
        ELSE IF pos0 + 1 > data_len THEN Return(-5, r0)
        ELSE IF ByteAt(data, pos0) # TLS_HANDSHAKE_TYPE_CLIENT_HELLO
             THEN Return(-5, r1)
        ELSE IF pos1 + 1 > data_len THEN Return(-5, r1)
        ELSE IF pos2 + 2 > data_len THEN Return(-5, r2)
        ELSE IF pos3 + 1 > data_len THEN Return(-5, r3)
        ELSE IF IsSsl3WithoutExtensions(pos4, data_len, ByteAt(data, 1),
                                        ByteAt(data, 2))
             THEN Return(-2, r4)
        ELSE IF pos4 + 2 > data_len THEN Return(-5, r4)
        ELSE IF pos5 + len4 > data_len THEN Return(-5, r5)
        ELSE LET ex == parse_extensions(data, pos5, len4, malloc_ok, pos5)
             IN  [ret |-> ex.ret, modify_pos |-> ex.modify_pos,
                  hdr_reads |-> r5, ext_reads |-> ex.ext_reads,
                  stage |-> ex.stage, ext_base |-> pos5, ext_len |-> len4,
                  hostname |-> ex.hostname, hostname_set |-> ex.hostname_set,
                  sni_reads |-> ex.sni_reads, copy_reads |-> ex.copy_reads,
                  sni_base |-> ex.sni_base, sni_len |-> ex.sni_len]

(***************************************************************************)
(* modify_tls_header (tls.c 73-84).  The buffer `data` has Len(data) bytes  *)
(* of capacity, data_len is the length the caller passes.  Lengths are      *)
(* size_t in the code; here they are integers, and `fault` says that the    *)
(* memmove count data_len - 5 - sni_split_pos is negative (it wraps to a    *)
(* huge size_t) or that data_len exceeds the capacity, in which case the    *)
(* call runs off the buffer and has no defined result.                      *)
(***************************************************************************)
\* size_t sni_split_pos = *modify_pos + 1;
SplitPos(modify_pos) == modify_pos + 1

\* Variant: the split position is subtracted instead of part1_len.
Part2LenFromSplitPos(record_length, part1_len) ==
    record_length - (part1_len + 5)

\* size_t part2_len = record_length - part1_len;
Part2Len(record_length, part1_len) == record_length - part1_len

modify_tls_header(data, data_len, modify_pos) ==
    LET sni_split_pos == SplitPos(modify_pos)
        count         == data_len - 5 - sni_split_pos
        fault         == count < 0 \/ data_len > Len(data)
        moved   == [i \in 1..Len(data) |->
                      IF i - 1 >= 5 + sni_split_pos
                         /\ i - 1 < 5 + sni_split_pos + count
                      THEN data[i - 5] ELSE data[i]]
        copied  == [i \in 1..Len(data) |->
                      IF i - 1 >= sni_split_pos /\ i - 1 < sni_split_pos + 5
                      THEN moved[i - sni_split_pos] ELSE moved[i]]
        part1_len     == sni_split_pos - 5
        record_length == U16At(copied, 3) % 65536
        part2_len     == Part2Len(record_length, part1_len)
        first   == [i \in 1..Len(data) |->
                      IF i - 1 \in {3, 4}
                      THEN htons(part1_len)[i - 3] ELSE copied[i]]
        second  == [i \in 1..Len(data) |->
                      IF i - 1 \in {sni_split_pos + 3, sni_split_pos + 4}
                      THEN htons(part2_len)[i - sni_split_pos - 3]
                      ELSE first[i]]
    IN  [data |-> IF fault THEN data ELSE second,
         data_len |-> data_len,
         fault |-> fault,
         sni_split_pos |-> sni_split_pos,
         count |-> count,
         part1_len |-> part1_len,
         record_length |-> record_length,
         part2_len |-> part2_len,
         touched |-> {sni_split_pos + i : i \in 0..(count - 1)}
                     \cup {5 + sni_split_pos + i : i \in 0..(count - 1)}
                     \cup {sni_split_pos + i : i \in 0..4}
                     \cup 0..4
                     \cup {sni_split_pos + 3, sni_split_pos + 4}]

(***************************************************************************)
(* Input buffers.  A ClientHello record is serialised from its parts; the   *)
(* buffer handed to the program is the record followed by the five bytes    *)
(* of capacity the caller reserves for the splitter.                        *)
(***************************************************************************)
BE16(n) == <<n \div 256, n % 256>>

RECURSIVE Flatten(_)
Flatten(ss) == IF ss = <<>> THEN <<>> ELSE Head(ss) \o Flatten(Tail(ss))

\* One server-name list entry: name type, 16-bit length, name bytes.
Entry(type, name) == <<type>> \o BE16(Len(name)) \o name

\* One extension: 16-bit type, 16-bit length, body.
Extension(type, body) == type \o BE16(Len(body)) \o body

\* The body of an SNI extension: 16-bit list length, then the entries.
ServerNameList(entries) == BE16(Len(entries)) \o entries

\* k extensions that are not SNI: types 1..k, the i-th with i - 1 body bytes.
Others(k) ==
    Flatten([i \in 1..k |-> Extension(<<0, i>>, [j \in 1..(i - 1) |-> 9])])

NameBytes == {0, 97}
Names == UNION {[1..k -> NameBytes] : k \in 0..MaxNameLen}

\* k entries that are not host_name: name types 1..k, the i-th with a name
\* of (i - 1) % 2 bytes.
Skipped(k) ==
    Flatten([i \in 1..k |-> Entry(i, [j \in 1..((i - 1) % 2) |-> 120])])

\* The entry the list is about: none, a host_name of any generated name, or
\* an entry of another type with an empty or a one-byte name.
FinalEntries ==
    {<<>>} \cup {Entry(0, n) : n \in Names}
           \cup {Entry(1, <<>>), Entry(1, <<120>>)}
DecoyEntry == Entry(0, <<98>>)
DecoyExtension == Extension(<<0, 0>>, ServerNameList(Entry(0, <<99, 99>>)))

ServerNameExtensions ==
    {Extension(<<0, 0>>, ServerNameList(Skipped(k) \o fin \o dec)) :
        k \in 0..MaxSkipped, fin \in FinalEntries, dec \in {<<>>, DecoyEntry}}

ExtensionLists ==
    {Others(k) \o sni \o tr :
        k \in 0..MaxOther,
        sni \in {<<>>} \cup ServerNameExtensions,
        tr \in {<<>>, DecoyExtension}}

\* The Extensions block with its length prefix, or nothing at all.
ExtensionBlocks(lists) == {<<>>} \cup {BE16(Len(x)) \o x : x \in lists}

SessionIds == {[i \in 1..k |-> 7] : k \in 0..MaxSessionId}

ClientHello(session_id, block) ==
    LET body == <<3, 3>> \o [i \in 1..32 |-> 100 + i]
                \o <<Len(session_id)>> \o session_id
                \o <<0, 2, 0, 47>> \o <<1, 0>> \o block
    IN  <<TLS_HANDSHAKE_TYPE_CLIENT_HELLO, 0>> \o BE16(Len(body)) \o body

Record(type, major, minor, payload) ==
    <<type, major, minor>> \o BE16(Len(payload)) \o payload

Reserve == <<238, 238, 238, 238, 238>>

\* Record version (minor) and what follows the record in the same buffer:
\* nothing, or the start of the next record.
Framings ==
    { [minor |-> 3, more |-> <<>>],
      [minor |-> 0, more |-> <<>>],
      [minor |-> 3, more |-> <<20, 3>>] }

\* Well-formed ClientHello payloads of every generated shape.
Hellos ==
    {ClientHello(sid, b) :
        sid \in SessionIds, b \in ExtensionBlocks(ExtensionLists)}

\* A few shapes that are then truncated, re-headed or corrupted.
LastSeed ==
    Others(1)
      \o Extension(<<0, 0>>,
           ServerNameList(Entry(1, <<120>>) \o Entry(0, <<97, 98>>)))
      \o DecoyExtension

SeedLists ==
    { <<>>,
      Others(1),
      Others(2),
      Extension(<<0, 0>>, ServerNameList(Entry(0, <<97>>))),
      LastSeed }

SeedPayloads == {ClientHello(<<>>, b) : b \in ExtensionBlocks(SeedLists)}

\* Two seeds, without and with extensions, under every header: content
\* types, versions.
Reheaded ==
    {Record(t, major, minor, p) :
        t \in {TLS_HANDSHAKE_CONTENT_TYPE, 23, 128, 150},
        major \in {2, 3}, minor \in {0, 1, 3},
        p \in {ClientHello(<<>>, b) :
                 b \in ExtensionBlocks({LastSeed})}}

\* One byte of the record changed: up or down by one, to 0 or to 255.  The
\* bytes of the handshake length, version and random are left alone.
Corrupted ==
    {[rec EXCEPT ![i] = v] :
        <<rec, i, v>> \in
            {<<r, j, w>> \in
                {Record(TLS_HANDSHAKE_CONTENT_TYPE, 3, 3, p) :
                    p \in SeedPayloads}
                \X (1..80) \X (0..255) :
                /\ j <= Len(r)
                /\ j <= 6 \/ j >= 44
                /\ w \in {(r[j] + 1) % 256, (r[j] + 255) % 256, 0, 255}}}

(***************************************************************************)
(* The state: the caller's buffer and the length it passes, the outputs of  *)
(* the last parse, and where the caller is.                                 *)
(***************************************************************************)
VARIABLES data, data_len, pc, hostname_ok, malloc_ok, result, hostname,
          modify_pos, original, split

vars == <<data, data_len, pc, hostname_ok, malloc_ok, result, hostname,
          modify_pos, original, split>>

NoSplit ==
    [data_len |-> 0, fault |-> FALSE, sni_split_pos |-> 0, count |-> 0, part1_len |-> 0,
     record_length |-> 0, part2_len |-> 0, touched |-> {}]

Init ==
    /\ \/ \E p \in Hellos : \E f \in Framings :
            LET rec == Record(TLS_HANDSHAKE_CONTENT_TYPE, 3, f.minor, p)
            IN  /\ data = rec \o f.more \o Reserve
                /\ data_len = Len(rec) + Len(f.more)
       \/ \E rec \in Reheaded : \E n \in 0..Len(rec) :
            /\ data = rec \o Reserve
            /\ data_len = n
       \/ \E rec \in Corrupted :
            /\ data = rec \o Reserve
            /\ data_len = Len(rec)
    /\ pc = "received"
    /\ hostname_ok = TRUE
    /\ malloc_ok = TRUE
    /\ result = HeaderReturn(0, 0, {})
    /\ hostname = NULL
    /\ modify_pos = 0
    /\ original = data
    /\ split = NoSplit

\* The caller parses the buffer it received.
ParseTlsHeader ==
    /\ pc = "received"
    /\ \E slot \in BOOLEAN, mem \in BOOLEAN :
         LET r == parse_tls_header(data, data_len, slot, mem, modify_pos)
         IN  /\ result' = r
             /\ hostname_ok' = slot
             /\ malloc_ok' = mem
             /\ hostname' = IF r.hostname_set THEN r.hostname ELSE hostname
             /\ modify_pos' = r.modify_pos
    /\ pc' = "parsed"
    /\ UNCHANGED <<data, data_len, original, split>>

\* After a successful parse the caller splits the record in the buffer,
\* whose length now counts the five reserved bytes.
ModifyTlsHeader ==
    /\ pc = "parsed"
    /\ result.ret >= 0
    /\ LET m == modify_tls_header(data, data_len + 5, modify_pos)
       IN  /\ data' = m.data
           /\ split' = [f \in DOMAIN NoSplit |-> m[f]]
    /\ pc' = "split"
    /\ UNCHANGED <<data_len, hostname_ok, malloc_ok, result, hostname,
                   modify_pos, original>>

Next == ParseTlsHeader \/ ModifyTlsHeader

Spec == Init /\ [][Next]_vars

(***************************************************************************)
(* The layout of a ClientHello record, read off the bytes of the buffer as  *)
(* it was received (RFC 5246 7.4.1.2, RFC 6066 3).  These definitions say   *)
(* what the properties below mean; the program does not use them.           *)
(***************************************************************************)
Parsed == pc # "received"

Declared == U16At(original, 3)
RecordLimit == TLS_HEADER_LEN + Declared
WorkingLength == MIN(data_len, RecordLimit)

Slice(base, len) == base..(base + len - 1)

AllReads ==
    result.hdr_reads \cup result.ext_reads \cup result.sni_reads
        \cup result.copy_reads

SessionIdAt == TLS_HEADER_LEN + 38
CipherSuitesAt == SessionIdAt + 1 + ByteAt(original, SessionIdAt)
CompressionAt == CipherSuitesAt + 2 + U16At(original, CipherSuitesAt)
ExtensionsLenAt == CompressionAt + 1 + ByteAt(original, CompressionAt)
BlockAt == ExtensionsLenAt + 2
BlockLen == U16At(original, ExtensionsLenAt)

\* The positions, relative to `start`, visited by stepping over items that
\* have a header of hdr bytes ending in a 16-bit body length: every element
\* but the last is the position of a header that lies inside `size`, the last
\* is where the walk stops.
RECURSIVE Walk(_, _, _, _)
Walk(start, size, hdr, p) ==
    IF p + hdr <= size
    THEN <<p>> \o Walk(start, size, hdr,
                       p + hdr + U16At(original, start + p + hdr - 2))
    ELSE <<p>>

Headers(walk) == 1..(Len(walk) - 1)
WalkEnd(walk) == walk[Len(walk)]
Least(S) == CHOOSE x \in S : \A y \in S : x <= y

\* Extensions of a block, and the SNI-typed ones among them.
ExtWalk(base, len) == Walk(base, len, 4, 0)
SniHeaders(base, len) ==
    LET w == ExtWalk(base, len)
    IN  {i \in Headers(w) : U16At(original, base + w[i]) = 0}

\* Entries of a server name list in an SNI body, and the host_name ones.
EntryWalk(body, blen) == Walk(body, blen, 3, 2)
EntryLen(body, q) == U16At(original, body + q + 1)
HostEntries(body, blen) ==
    LET w == EntryWalk(body, blen)
    IN  {i \in Headers(w) : ByteAt(original, body + w[i]) = 0}

\* Absolute offset of the header of the first SNI extension of the record's
\* Extensions block, of its body, and the body's length.
FirstSniAt == BlockAt + ExtWalk(BlockAt, BlockLen)[Least(SniHeaders(BlockAt, BlockLen))]
FirstSniBody == FirstSniAt + 4
FirstSniLen == U16At(original, FirstSniAt + 2)

\* Position, in an SNI body, of its first host_name entry.
FirstHost(body, blen) == EntryWalk(body, blen)[Least(HostEntries(body, blen))]

\* The first host_name entry and every entry before it lie inside the body.
FirstHostFits(body, blen) ==
    /\ HostEntries(body, blen) # {}
    /\ LET w == EntryWalk(body, blen)
           first == Least(HostEntries(body, blen))
       IN  \A i \in 1..first : w[i] + 3 + EntryLen(body, w[i]) <= blen

(***************************************************************************)
(* C1.  Every byte index that parse_tls_header, parse_extensions and        *)
(* parse_server_name_extension read is below the working length             *)
(* min(data_len, 5 + declared record length); each stage reads only inside  *)
(* the slice it was given, each slice lies inside the one before, and the   *)
(* name bytes copied out lie inside the SNI extension body.                 *)
(***************************************************************************)
ReadsWithinWorkingLength ==
    Parsed =>
      /\ \A i \in AllReads : 0 <= i /\ i < WorkingLength
      /\ result.ext_reads \subseteq Slice(result.ext_base, result.ext_len)
      /\ result.sni_reads \cup result.copy_reads
            \subseteq Slice(result.sni_base, result.sni_len)
      /\ result.ext_base >= 0 =>
            Slice(result.ext_base, result.ext_len)
                \subseteq Slice(0, WorkingLength)
      /\ result.sni_base >= 0 =>
            Slice(result.sni_base, result.sni_len)
                \subseteq Slice(result.ext_base, result.ext_len)
      /\ result.ret >= 0 =>
            Slice(modify_pos, result.ret)
                \subseteq Slice(result.sni_base, result.sni_len)

\* A parse that copied a name whose last byte is the last byte of the record,
\* in a buffer that goes on after the record.
NameAtRecordEndBeforeTrailingBytes ==
    /\ pc = "parsed"
    /\ result.ret > 0
    /\ RecordLimit < data_len
    /\ (RecordLimit - 1) \in result.copy_reads

(***************************************************************************)
(* C2.  When the parse returns L >= 0, modify_pos is the absolute offset of *)
(* the first name byte of the first host_name entry of the first SNI        *)
(* extension, L is that entry's declared name length, and modify_pos + L is *)
(* at most 5 + declared record length.                                      *)
(***************************************************************************)
ModifyPosIsFirstHostNameOffset ==
    Parsed /\ result.ret >= 0 =>
      /\ SniHeaders(BlockAt, BlockLen) # {}
      /\ HostEntries(FirstSniBody, FirstSniLen) # {}
      /\ LET q == FirstHost(FirstSniBody, FirstSniLen)
         IN  /\ modify_pos = FirstSniBody + q + 3
             /\ result.ret = EntryLen(FirstSniBody, q)
             /\ modify_pos + result.ret <= RecordLimit

\* A success behind a session id, an extension that is not SNI and a name
\* entry that is not host_name.
HostNameFoundBehindSkippedItems ==
    /\ pc = "parsed"
    /\ result.ret > 0
    /\ ByteAt(original, SessionIdAt) > 0
    /\ FirstSniAt > BlockAt
    /\ modify_pos > FirstSniBody + 2 + 3

(***************************************************************************)
(* C3.  Round trip of the splitter on a buffer that holds exactly one       *)
(* record (n = 5 + declared length, data_len = n + 5 at the call): the two  *)
(* records' payloads, concatenated, are the original payload; the second    *)
(* header has the original content type and version; the two length fields  *)
(* sum to the original declared length, the first being modify_pos + 1 - 5. *)
(***************************************************************************)
\* The n bytes of buffer d from index `from` on.
Bytes(d, from, n) == [i \in 1..n |-> ByteAt(d, from + i - 1)]

FirstLen == U16At(data, 3)
SecondAt == TLS_HEADER_LEN + FirstLen
SecondLen == U16At(data, SecondAt + 3)

SplitRoundTrip ==
    pc = "split" /\ data_len = RecordLimit =>
      /\ Bytes(data, TLS_HEADER_LEN, FirstLen)
            \o Bytes(data, SecondAt + TLS_HEADER_LEN, SecondLen)
         = Bytes(original, TLS_HEADER_LEN, Declared)
      /\ \A i \in 0..2 : ByteAt(data, SecondAt + i) = ByteAt(original, i)
      /\ FirstLen + SecondLen = Declared
      /\ FirstLen = modify_pos + 1 - TLS_HEADER_LEN
      /\ SecondAt + TLS_HEADER_LEN + SecondLen = split.data_len

\* A split that leaves payload bytes on both sides.
SplitInsideThePayload ==
    /\ pc = "split"
    /\ data_len = RecordLimit
    /\ FirstLen > 0
    /\ SecondLen > 1

(***************************************************************************)
(* C4 as stated.  For every buffer, passed with a hostname slot, whose      *)
(* declared record length exceeds the supplied length, the parser returns   *)
(* Incomplete (-1) whatever the other bytes are.                            *)
(***************************************************************************)
ShortOfDeclaredLengthIsIncomplete ==
    Parsed /\ hostname_ok /\ data_len >= TLS_HEADER_LEN
           /\ data_len < RecordLimit
      => result.ret = -1

(***************************************************************************)
(* C4 amended.  With a hostname slot, a buffer shorter than the 5-byte      *)
(* header returns Incomplete (-1), and so does a buffer of at least 5 bytes *)
(* whose content type is 0x16, whose major version is at least 3 and whose  *)
(* declared record length exceeds the supplied length.                      *)
(***************************************************************************)
ShortHandshakeRecordIsIncomplete ==
    Parsed /\ hostname_ok
           /\ \/ data_len < TLS_HEADER_LEN
              \/ /\ ByteAt(original, 0) = TLS_HANDSHAKE_CONTENT_TYPE
                 /\ ByteAt(original, 1) >= 3
                 /\ data_len < RecordLimit
      => result.ret = -1

\* A handshake record cut short somewhere after its header.
HandshakeRecordCutShort ==
    /\ pc = "parsed"
    /\ hostname_ok
    /\ ByteAt(original, 0) = TLS_HANDSHAKE_CONTENT_TYPE
    /\ ByteAt(original, 1) >= 3
    /\ data_len > TLS_HEADER_LEN
    /\ data_len < RecordLimit

(***************************************************************************)
(* C5 as stated.  For every buffer whose content-type byte (byte 0) is not  *)
(* 0x16 the parser returns Malformed (-5).                                  *)
(***************************************************************************)
OtherContentTypeIsMalformed ==
    Parsed /\ hostname_ok /\ data_len >= 1
           /\ ByteAt(original, 0) # TLS_HANDSHAKE_CONTENT_TYPE
      => result.ret = -5

(***************************************************************************)
(* C5 amended.  With a hostname slot, for every buffer of at least 5 bytes  *)
(* whose byte 0 is not 0x16 and that is not an SSL 2.0 ClientHello (high    *)
(* bit of byte 0 set and byte 2 equal to 1), the parser returns Malformed   *)
(* (-5).                                                                    *)
(***************************************************************************)
OtherContentTypeOfFullHeaderIsMalformed ==
    Parsed /\ hostname_ok /\ data_len >= TLS_HEADER_LEN
           /\ ByteAt(original, 0) # TLS_HANDSHAKE_CONTENT_TYPE
           /\ ~(HighBit(ByteAt(original, 0)) /\ ByteAt(original, 2) = 1)
      => result.ret = -5

\* A first byte with the high bit set that is still not an SSL 2.0 hello.
HighBitButNotSsl2 ==
    /\ pc = "parsed"
    /\ hostname_ok
    /\ data_len >= TLS_HEADER_LEN
    /\ HighBit(ByteAt(original, 0))
    /\ ByteAt(original, 2) # 1

(***************************************************************************)
(* C6.  What a complete, structurally valid ClientHello without a host name *)
(* is: the record is all there, it is a version 3.x handshake record        *)
(* holding a ClientHello whose session id, cipher suites and compression    *)
(* methods lie inside the record, and then one of three shapes.             *)
(***************************************************************************)
CompleteClientHello ==
    /\ hostname_ok
    /\ data_len >= RecordLimit
    /\ ByteAt(original, 0) = TLS_HANDSHAKE_CONTENT_TYPE
    /\ ByteAt(original, 1) = 3
    /\ TLS_HEADER_LEN < RecordLimit
    /\ ByteAt(original, TLS_HEADER_LEN) = TLS_HANDSHAKE_TYPE_CLIENT_HELLO
    /\ SessionIdAt < RecordLimit
    /\ CipherSuitesAt + 2 <= RecordLimit
    /\ CompressionAt < RecordLimit
    /\ ExtensionsLenAt <= RecordLimit

\* The hello ends right after the compression methods.
NoExtensionsBlock == ExtensionsLenAt = RecordLimit

\* The Extensions block fills the rest of the record and its extensions fill
\* the block.
ValidExtensionsBlock ==
    /\ BlockAt <= RecordLimit
    /\ BlockAt + BlockLen = RecordLimit
    /\ WalkEnd(ExtWalk(BlockAt, BlockLen)) = BlockLen

BlockWithoutSni ==
    ValidExtensionsBlock /\ SniHeaders(BlockAt, BlockLen) = {}

\* The first SNI extension holds a name list whose entries fill it, none of
\* them a host_name.
SniWithoutHostName ==
    /\ ValidExtensionsBlock
    /\ SniHeaders(BlockAt, BlockLen) # {}
    /\ FirstSniLen >= 2
    /\ U16At(original, FirstSniBody) = FirstSniLen - 2
    /\ WalkEnd(EntryWalk(FirstSniBody, FirstSniLen)) = FirstSniLen
    /\ HostEntries(FirstSniBody, FirstSniLen) = {}

\* No entry of the first SNI extension's list ends the body with an empty
\* name: after every entry header at least one more byte of the body follows.
NoEmptyLastName ==
    LET w == EntryWalk(FirstSniBody, FirstSniLen)
    IN  \A i \in Headers(w) : w[i] + 3 < FirstSniLen

(***************************************************************************)
(* C6 as stated.  Every structurally valid, completely received ClientHello *)
(* that carries no SNI host name returns NoHostname (-2): no extensions     *)
(* block (any record version 3.x), a block without an SNI extension, or an  *)
(* SNI extension whose list holds no host_name entry.                       *)
(***************************************************************************)
ValidHelloWithoutHostNameIsNoHostname ==
    Parsed /\ CompleteClientHello
           /\ (NoExtensionsBlock \/ BlockWithoutSni \/ SniWithoutHostName)
      => result.ret = -2

(***************************************************************************)
(* C6 amended.  A structurally valid, completely received ClientHello       *)
(* returns NoHostname (-2) when it ends right after the compression methods *)
(* and the record version is exactly 3.0, when its Extensions block holds   *)
(* no extension of type 0x0000, or when its first SNI extension's list      *)
(* holds no host_name entry and does not end in an entry with an empty      *)
(* name.  (Without an Extensions block a record of version 3.1 or later is  *)
(* Malformed, and so is a list that ends in an entry with an empty name.)   *)
(***************************************************************************)
ValidHelloWithoutHostNameIsNoHostnameAmended ==
    Parsed /\ CompleteClientHello
           /\ \/ NoExtensionsBlock /\ ByteAt(original, 2) = 0
              \/ BlockWithoutSni
              \/ SniWithoutHostName /\ NoEmptyLastName
      => result.ret = -2

\* An SNI extension listing a single name that is not a host_name.
SniWithOnlyAnotherNameType ==
    /\ pc = "parsed"
    /\ CompleteClientHello
    /\ SniWithoutHostName
    /\ NoEmptyLastName
    /\ Len(EntryWalk(FirstSniBody, FirstSniLen)) > 1

(***************************************************************************)
(* C7.  When the parse returns L >= 0, hostname is a buffer of L + 1 bytes: *)
(* the L name bytes of the entry, hostname[i] = buffer[modify_pos + i],     *)
(* then a zero byte.                                                        *)
(***************************************************************************)
HostnameIsTheNameBytes ==
    Parsed /\ result.ret >= 0 =>
      /\ Len(hostname) = result.ret + 1
      /\ \A i \in 0..(result.ret - 1) :
            hostname[i + 1] = ByteAt(original, modify_pos + i)
      /\ hostname[result.ret + 1] = 0

(***************************************************************************)
(* C8.  For an Extensions block handed to parse_extensions in which no      *)
(* scanned header has type 0x0000, the result is Malformed (-5) exactly     *)
(* when the walk over 4-byte headers and declared body lengths stops at a   *)
(* position other than the block's length, and NoHostname (-2) exactly when *)
(* it stops at the block's length.                                          *)
(***************************************************************************)
ScanWithoutSniEndsMalformedOrNoHostname ==
    Parsed /\ result.ext_base >= 0
           /\ SniHeaders(result.ext_base, result.ext_len) = {}
      => LET end == WalkEnd(ExtWalk(result.ext_base, result.ext_len))
         IN  /\ result.ret = -5 <=> end # result.ext_len
             /\ result.ret = -2 <=> end = result.ext_len

\* A block without SNI whose last extension leaves one to three bytes over.
ScanStopsShortOfBlockEnd ==
    /\ pc = "parsed"
    /\ result.ext_base >= 0
    /\ SniHeaders(result.ext_base, result.ext_len) = {}
    /\ Len(ExtWalk(result.ext_base, result.ext_len)) > 1
    /\ WalkEnd(ExtWalk(result.ext_base, result.ext_len)) < result.ext_len

(***************************************************************************)
(* C9 as stated.  For an SNI body handed to parse_server_name_extension: if *)
(* the first host_name entry, with its 3-byte header and its declared name  *)
(* length (any value >= 0), lies inside the body and so does every entry    *)
(* before it, the extractor returns that entry's name length.  (Stated for  *)
(* the calls in which the allocation succeeds.)                             *)
(***************************************************************************)
FittingHostNameIsReturned ==
    Parsed /\ malloc_ok /\ result.sni_base >= 0
           /\ FirstHostFits(result.sni_base, result.sni_len)
      => result.ret
           = EntryLen(result.sni_base,
                      FirstHost(result.sni_base, result.sni_len))

(***************************************************************************)
(* C9 amended.  If moreover at least one byte of the body follows the       *)
(* 3-byte header of that first host_name entry (always so when its name is  *)
(* not empty) and the allocation succeeds, the extractor returns that       *)
(* entry's name length and modify_pos is the offset of its name; entries    *)
(* after it do not matter.  (An empty host_name that ends the body is       *)
(* Malformed; a failed allocation is -4.)                                   *)
(***************************************************************************)
FittingHostNameIsReturnedAmended ==
    Parsed /\ malloc_ok /\ result.sni_base >= 0
           /\ FirstHostFits(result.sni_base, result.sni_len)
           /\ FirstHost(result.sni_base, result.sni_len) + 3 < result.sni_len
      => LET q == FirstHost(result.sni_base, result.sni_len)
         IN  /\ result.ret = EntryLen(result.sni_base, q)
             /\ modify_pos = result.sni_base + q + 3

\* A host_name found after an entry of another type and before a second
\* host_name entry.
HostNameBetweenOtherEntries ==
    /\ pc = "parsed"
    /\ malloc_ok
    /\ result.sni_base >= 0
    /\ FirstHostFits(result.sni_base, result.sni_len)
    /\ FirstHost(result.sni_base, result.sni_len) > 2
    /\ Cardinality(HostEntries(result.sni_base, result.sni_len)) > 1
    /\ result.ret > 0

(***************************************************************************)
(* C10.  After a successful parse of an n-byte buffer, split = modify_pos   *)
(* + 1 satisfies 5 < split <= 5 + declared record length <= n; in the call  *)
(* of modify_tls_header with data_len = n + 5 the memmove count does not    *)
(* underflow, every index the call reads or writes is below data_len, and   *)
(* part1_len = split - 5 and part2_len = declared length - part1_len are    *)
(* neither negative nor too large for 16 bits.                              *)
(***************************************************************************)
SplitStaysInsideTheBuffer ==
    /\ Parsed /\ result.ret >= 0 =>
          /\ TLS_HEADER_LEN < modify_pos + 1
          /\ modify_pos + 1 <= RecordLimit
          /\ RecordLimit <= data_len
    /\ pc = "split" =>
          /\ ~split.fault
          /\ split.data_len = data_len + 5
          /\ split.sni_split_pos = modify_pos + 1
          /\ split.count >= 0
          /\ split.touched \subseteq 0..(split.data_len - 1)
          /\ split.part1_len = split.sni_split_pos - 5
          /\ split.part1_len \in 0..65535
          /\ split.part2_len = Declared - split.part1_len
          /\ split.part2_len \in 0..65535

\* A split right before the last byte of the buffer: nothing is left to move.
SplitAtTheLastByte ==
    /\ pc = "split"
    /\ split.count = 0
    /\ split.sni_split_pos = data_len

====
